---------------------------- MODULE Spec2Model ----------------------------
(***************************************************************************)
(* A model of src/readline.c, the Lua binding of a line-editing library.   *)
(*                                                                         *)
(* The machines of the module:                                             *)
(*   Spec         the interruptible read (lua_readline, readline_sigint)   *)
(*                and the completion bridge (gen_function,                 *)
(*                lua_initgenerator, lua_stepgenerator,                    *)
(*                lua_ipairsiterator, lua_iterstep), driven by the native  *)
(*                library;                                                 *)
(*   SpecBridge   the completion bridge alone, over every source;          *)
(*   SpecDriver   the completion bridge under a caller that may restart a  *)
(*                generation at any point and step it after its end;       *)
(*   SpecHistory  the read with a host that also calls addhistory();       *)
(*   SpecNested   the read with a host whose completion function calls     *)
(*                readline() again;                                        *)
(*   SpecName     the name accessors (lua_getname, lua_setname, clonestr). *)
(*                                                                         *)
(* Text is modelled byte by byte.  A Lua string is a finite sequence of    *)
(* bytes that may hold the byte 0; a C string ends at its first byte 0.    *)
(* Every crossing of that boundary (lua_tolstring, lua_pushstring,         *)
(* strlen, strncmp, strncpy, strlcpy) is modelled by what the C function   *)
(* does with the bytes.                                                    *)
(***************************************************************************)
EXTENDS Integers, Sequences, FiniteSets, TLC

(***************************************************************************)
(* Bounds of the model.                                                    *)
(***************************************************************************)
MaxStrLen == 2      \* longest Lua string, prefix or line, in bytes
MaxTbl    == 2      \* longest completion table / longest host iterator run
MaxCalls  == 2      \* cap on the per-read counters of native cleanup calls
MaxHeap   == 2      \* addresses malloc can return for name buffers
MaxHist   == 1      \* longest history list

(***************************************************************************)
(* Bytes and strings.                                                      *)
(***************************************************************************)
NUL   == 0
Chars == {NUL, 1}                          \* '\0' and 'a'

SeqsUpTo(S, n) == UNION {[1..k -> S] : k \in 0..n}

LuaStrings == SeqsUpTo(Chars, MaxStrLen)            \* may hold NUL bytes
CStrings   == SeqsUpTo(Chars \ {NUL}, MaxStrLen)    \* what a char* can carry

\* The byte at 0-based offset i of the buffer of s.  Lua keeps a terminating
\* NUL after the last byte of every string; C strings end with one.
At(s, i) == IF i < Len(s) THEN s[i + 1] ELSE NUL

strlen(s) ==
    IF \E i \in 1..Len(s) : s[i] = NUL
    THEN (CHOOSE i \in 1..Len(s) :
              s[i] = NUL /\ \A j \in 1..(i - 1) : s[j] # NUL) - 1
    ELSE Len(s)

\* The text a char* pointing at the buffer of s denotes.
CStr(s) == SubSeq(s, 1, strlen(s))

\* strncmp(s1, s2, n): 0 when the first n bytes agree, the comparison
\* stopping after a NUL; 1 stands for any non-zero result.
strncmp(s1, s2, n) ==
    IF \A i \in 0..(n - 1) :
           (\A j \in 0..(i - 1) : At(s1, j) # NUL) => At(s1, i) = At(s2, i)
    THEN 0 ELSE 1

\* strncpy(dst, src, n): the n bytes written to dst, the bytes of src up to
\* its first NUL and NUL padding after them.
strncpy(src, n) == [i \in 1..n |-> IF i <= strlen(src) THEN src[i] ELSE NUL]

\* strlcpy(dst, src, size): at most size-1 bytes of the C string src, then NUL.
strlcpy(src, size) ==
    LET k == IF strlen(src) < size - 1 THEN strlen(src) ELSE size - 1
    IN  Append(SubSeq(src, 1, k), NUL)

(***************************************************************************)
(* Lua values and C pointers.                                              *)
(***************************************************************************)
LNil     == [type |-> "nil"]
LStr(s)  == [type |-> "string", s |-> s]
LNum(n)  == [type |-> "number", n |-> n]
LTrue    == [type |-> "boolean"]
LTable(t) == [type |-> "table", t |-> t]
LFunction(script) == [type |-> "function", script |-> script]

lua_isnil(v) == v.type = "nil"

\* lua_tolstring(L, idx, &len): the buffer and the length of a string; NULL
\* and length 0 for a value that is neither a string nor a number.
lua_tolstring(v) ==
    IF v.type = "string"
    THEN [null |-> FALSE, str |-> v.s, len |-> Len(v.s)]
    ELSE [null |-> TRUE, str |-> <<>>, len |-> 0]

\* lua_pushstring(L, s): the Lua string made of the C string s; nil for NULL.
NULL      == [ptr |-> "NULL"]
Heap(buf) == [ptr |-> "heap", buf |-> buf]
lua_pushstring(p) == IF p = NULL THEN LNil ELSE LStr(CStr(p.buf))


(***************************************************************************)
(* The arguments the host passes and the values it hands back.             *)
(***************************************************************************)
\* The values a table holds or a host iterator returns, nil apart: strings,
\* and true for the values lua_tolstring does not convert.
Values == {LStr(s) : s \in LuaStrings} \cup {LTrue}
\* A completion table: values at the indices 1..n (what ipairs visits).
Tables  == SeqsUpTo(Values, MaxTbl)
\* A host completion function is known by the values its iterator returns on
\* successive calls; after them it returns nil.
Scripts == SeqsUpTo(Values, MaxTbl)
\* The second argument of readline(): a function, a table, or anything else.
Arg2s == {LNil} \cup {LTable(t) : t \in Tables}
                \cup {LFunction(s) : s \in Scripts}
\* lua_readline itself never looks at the bytes of a candidate: where the
\* whole read is explored the candidates are strings of at most one byte.
ShortValues == {v \in Values : lua_tolstring(v).len <= 1}
ReadArg2s == {LNil} \cup {LTable(t) : t \in SeqsUpTo(ShortValues, MaxTbl)}
                    \cup {LFunction(s) : s \in SeqsUpTo(ShortValues, MaxTbl)}

SIGINT == 2
\* What signal(SIGINT, ...) can return before the first read.
HostDispositions == {"SIG_DFL", "SIG_IGN", "host_handler"}

VARIABLES
    pc,             \* where the process is: "idle" (in the host), "installed"
                    \* (between lines 203 and 205), "readline" (blocked in
                    \* readline()), "matches" (readline is collecting
                    \* completions, between two gen_function calls),
                    \* "generator" / "iterator" (host code called by lua_call
                    \* is running), "interrupted" (sigsetjmp has returned the
                    \* signal), "undefined" (undefined behaviour happened)
    arg2,           \* the completion argument the host passes to readline()
    sigint,         \* the disposition of SIGINT
    globalEnv,      \* the jump buffer: "unset", "valid" (set by a
                    \* lua_readline call that has not left yet), "stale"
    globalL,        \* the Lua state for the handler and the generator
    rl_completion_entry_function,
    old_sigint,     \* the local of lua_readline; "none" outside a call
    sig,            \* the local of lua_readline: what sigsetjmp returned
    regGenerator,   \* registry[REGISTRY_KEY_GENERATOR]
    regIterator,    \* registry[REGISTRY_KEY_ITERATOR]
    \* ---- what a test harness would record about the current (or last) read
    prior,          \* the disposition when readline() was called
    exit,           \* how the last readline() call left: "none", "line",
                    \* "eof", "nodata", "interrupt", "error"
    result,         \* the values the last readline() call returned
    native,         \* whether the native readline() returned to it, the
                    \* pointer it returned and feof() of the stream then
    raised,         \* the host callable raised an error during the read
    intAt,          \* pc at which the last SIGINT of the read was delivered
    nFree,          \* calls of rl_free_line_state in the read
    nCleanup,       \* calls of rl_cleanup_after_signal in the read
    handlerCalls,   \* arguments of the calls of the prior handler
    \* ---- and about the current (or last) generation
    text,           \* the prefix gen_function was started with
    gen,            \* "none", "active", "exhausted"
    yielded,        \* the candidates gen_function has returned, as C strings
    steps,          \* calls of lua_stepgenerator
    hostCalls,      \* calls of host code (generator and iterator)
    hostNil,        \* the host iterator has returned nil
    \* ---- the name accessors
    rl_readline_name,   \* the native library's variable
    liveNames,      \* addresses of the name buffers that clonestr has
                    \* allocated and that were not freed since
    nameArg,        \* the argument of the last setname()
    nameExit,       \* how the last setname() left: "none", "return",
                    \* "error"
    nameResult,     \* the values the last accessor call returned
    nameAlloc,      \* malloc in the last setname(): "none", "ok", "failed"
    released,       \* the pointer the last setname() passed to free; NULL
                    \* when it called free with nothing
    \* ---- the host's other calls
    history,        \* the native library's history list, as C strings
    histCall,       \* the last addhistory() call: whether there was one and
                    \* the values it returned
    outer,          \* the lua_readline call that is suspended in a host
                    \* callback while a second lua_readline call runs
    \* ---- the Lua state and more of what a harness would record
    nCcalls,        \* L->nCcalls: the lua_call levels of the bridge that were
                    \* entered and neither returned from nor unwound by a
                    \* Lua error
    callee,         \* the host function that lua_call (line 114) is running
    trace,          \* the calls made by lines 206-218 in the read, in order,
                    \* each with the disposition of SIGINT at that moment
    replaced,       \* the generation the last gen_function(text, 0) call
                    \* cut short before its end: its prefix and its steps
    again           \* gen_function was called with state # 0 after it had
                    \* returned NULL in this generation

readVars == <<pc, arg2, sigint, globalEnv, globalL,
              rl_completion_entry_function, old_sigint, sig,
              regGenerator, regIterator>>
readLog  == <<prior, exit, result, native, raised, intAt, nFree, nCleanup,
              handlerCalls>>
genLog   == <<text, gen, yielded, steps, hostCalls, hostNil>>
nameVars == <<rl_readline_name, liveNames, nameArg, nameExit, nameResult,
              nameAlloc, released>>
hostVars == <<history, histCall, outer>>
luaVars  == <<nCcalls, callee>>
drvLog   == <<replaced, again>>
vars     == <<readVars, readLog, genLog, nameVars, hostVars, luaVars, trace,
              drvLog>>

(***************************************************************************)
(* The completion bridge.                                                  *)
(***************************************************************************)
\* Lines 182-195 without the default case: an argument that is no table is
\* stored as it is.
lua_readline_generator_NoDefault(a) ==
    CASE a.type = "table" ->
             [type |-> "cclosure", f |-> "lua_ipairsiterator", up1 |-> a]
      [] OTHER -> a

\* lua_readline, lines 182-195: the generator stored for an argument.
lua_readline_generator(a) ==
    CASE a.type = "function" -> a
      [] a.type = "table" ->
             [type |-> "cclosure", f |-> "lua_ipairsiterator", up1 |-> a]
      [] OTHER -> [type |-> "cfunction", f |-> "lua_niliterator"]

\* lua_returnnil: no values; lua_call(L, 0, 1) makes that one nil.
lua_returnnil == LNil

\* lua_niliterator: returns lua_returnnil.
lua_niliterator == [type |-> "cfunction", f |-> "lua_returnnil"]

\* The iterator ipairs returns: the next index and its value, nothing past
\* the last index; lua_call(L, 2, 2) makes that two nils.
ipairs_aux(t, key) ==
    IF key.n + 1 <= Len(t)
    THEN <<LNum(key.n + 1), t[key.n + 1]>>
    ELSE <<LNil, LNil>>

\* lua_ipairsiterator: ipairs(table) gives (ipairs_aux, table, 0); the
\* closure keeps them with the prefix as fourth upvalue.
lua_ipairsiterator(tbl, prefix) ==
    [type |-> "cclosure", f |-> "lua_iterstep",
     up1 |-> "ipairs_aux", up2 |-> tbl.t, up3 |-> LNum(0), up4 |-> prefix]

\* Line 70 without its strncmp: only the lengths are compared.
PrefixMatches_LengthOnly(pref, res) == res.len >= pref.len

\* The test of line 70, on what lua_tolstring gave for the prefix (line 51)
\* and for the value (line 68).  For a value that is no string rlen is 0 and
\* res is NULL: strncmp is reached only with len = 0 and reads no byte.
PrefixMatches(pref, res) ==
    res.len >= pref.len /\ strncmp(pref.str, res.str, pref.len) = 0

\* lua_iterstep on the upvalues (t, key, pref): the closure's new third
\* upvalue and the value returned; err when the call of ipairs_aux raises
\* (its index argument is not a number).
RECURSIVE lua_iterstep(_, _, _)
lua_iterstep(t, key, pref) ==
    IF key.type # "number"
    THEN [err |-> TRUE, up3 |-> key, ret |-> LNil]
    ELSE LET r == ipairs_aux(t, key)
         IN  IF lua_isnil(r[2])
             THEN [err |-> FALSE, up3 |-> r[1], ret |-> r[2]]
             ELSE IF PrefixMatches(lua_tolstring(pref), lua_tolstring(r[2]))
                  THEN [err |-> FALSE, up3 |-> r[1], ret |-> r[2]]
                  ELSE lua_iterstep(t, r[1], pref)

\* The pointer of a call that did not return one: strncpy was given NULL
\* to read from.
Undefined == [ptr |-> "undefined"]

\* Lines 132-145 without the nil test: nil becomes an empty candidate.
lua_stepgenerator_NoNilTest(v) ==
    LET r == lua_tolstring(v)
    IN  IF lua_isnil(v) THEN Heap(<<NUL>>)
        ELSE IF r.null THEN Undefined
        ELSE Heap(strncpy(r.str, r.len + 1))

\* lua_stepgenerator, lines 132-145: the char* made of the value the
\* iterator returned.
lua_stepgenerator(v) ==
    LET r == lua_tolstring(v)
    IN  IF lua_isnil(v) THEN NULL
        ELSE IF r.null THEN Undefined
        ELSE Heap(strncpy(r.str, r.len + 1))


(***************************************************************************)
(* Initial state: the library is loaded, nothing has been called.          *)
(***************************************************************************)
InitRead ==
    /\ pc = "idle"
    /\ arg2 \in ReadArg2s
    /\ sigint \in HostDispositions
    /\ globalEnv = "unset"
    /\ globalL = "NULL"
    /\ rl_completion_entry_function = "NULL"
    /\ old_sigint = "none"
    /\ sig = 0
    /\ regGenerator = LNil
    /\ regIterator = LNil
    /\ prior = "none"
    /\ exit = "none"
    /\ result = <<>>
    /\ native = [returned |-> FALSE, line |-> NULL, eof |-> FALSE]
    /\ raised = FALSE
    /\ intAt = "none"
    /\ nFree = 0
    /\ nCleanup = 0
    /\ handlerCalls = <<>>
    /\ text = <<>>
    /\ gen = "none"
    /\ yielded = <<>>
    /\ steps = 0
    /\ hostCalls = 0
    /\ hostNil = FALSE

\* The native library's initial name is storage of the library, not of
\* malloc.
InitName ==
    /\ rl_readline_name = [ptr |-> "static", buf |-> <<NUL>>]
    /\ liveNames = {}
    /\ nameArg = <<>>
    /\ nameExit = "none"
    /\ nameResult = <<>>
    /\ nameAlloc = "none"
    /\ released = NULL

InitHost ==
    /\ history = <<>>
    /\ histCall = [called |-> FALSE, result |-> <<>>]
    /\ outer = [live |-> FALSE, pc |-> "idle", old_sigint |-> "none"]
    /\ nCcalls = 0
    /\ callee = LNil
    /\ trace = <<>>
    /\ replaced = [any |-> FALSE, text |-> <<>>, steps |-> 0]
    /\ again = FALSE

Init == InitRead /\ InitName /\ InitHost

(***************************************************************************)
(* lua_readline.                                                           *)
(***************************************************************************)
\* Lines 177-203: store the generator, point the library at gen_function,
\* set globalL, install readline_sigint and keep the old disposition.
lua_readline_install ==
    /\ pc = "idle"
    /\ regGenerator' = lua_readline_generator(arg2)
    /\ rl_completion_entry_function' = "gen_function"
    /\ globalL' = "L"
    /\ old_sigint' = sigint
    /\ sigint' = "readline_sigint"
    /\ pc' = "installed"
    /\ prior' = sigint
    /\ exit' = "none"
    /\ result' = <<>>
    /\ native' = [returned |-> FALSE, line |-> NULL, eof |-> FALSE]
    /\ raised' = FALSE
    /\ intAt' = "none"
    /\ nFree' = 0
    /\ nCleanup' = 0
    /\ handlerCalls' = <<>>
    /\ text' = <<>>
    /\ gen' = "none"
    /\ yielded' = <<>>
    /\ steps' = 0
    /\ hostCalls' = 0
    /\ hostNil' = FALSE
    /\ trace' = <<>>
    /\ UNCHANGED <<arg2, globalEnv, sig, regIterator, nameVars, hostVars,
                   luaVars, drvLog>>

\* Line 205, the direct return of sigsetjmp, and the call of readline() at
\* line 220.
lua_readline_sigsetjmp ==
    /\ pc = "installed"
    /\ globalEnv' = "valid"
    /\ sig' = 0
    /\ pc' = "readline"
    /\ UNCHANGED <<arg2, sigint, globalL, rl_completion_entry_function,
                   old_sigint, regGenerator, regIterator,
                   readLog, genLog, nameVars, hostVars, luaVars, trace,
                   drvLog>>

\* Lines 223-236 without the feof() test.
lua_readline_result_NoEofTest(line, eof) == <<lua_pushstring(line)>>

\* Lines 223-236: the values returned for the pointer readline() returned
\* and for feof() of the input stream.
lua_readline_result(line, eof) ==
    IF line = NULL /\ eof
    THEN <<>>
    ELSE <<lua_pushstring(line)>>

\* Line 222 resetting the signal instead of restoring it.
lua_readline_restore_Default(old) == "SIG_DFL"

\* Line 222: the disposition after readline() has returned.
lua_readline_restore(old) == old

\* Lines 220-237: readline() returns line; feof() of the stream is eof.
lua_readline_return(line, eof) ==
    /\ pc = "readline"
    /\ sigint' = lua_readline_restore(old_sigint)
    /\ result' = lua_readline_result(line, eof)
    /\ native' = [returned |-> TRUE, line |-> line, eof |-> eof]
    /\ exit' = IF line # NULL THEN "line" ELSE IF eof THEN "eof" ELSE "nodata"
    /\ pc' = "idle"
    /\ old_sigint' = "none"
    /\ globalEnv' = "stale"
    /\ UNCHANGED <<arg2, globalL, rl_completion_entry_function, sig,
                   regGenerator, regIterator, prior, raised, intAt, nFree,
                   nCleanup, handlerCalls, genLog, nameVars, hostVars,
                   luaVars, trace, drvLog>>


(***************************************************************************)
(* gen_function, lua_initgenerator, lua_stepgenerator.                     *)
(***************************************************************************)
\* 1 while host code called by lua_call (lines 114, 131) is running.
InCall(p) == IF p \in {"generator", "iterator"} THEN 1 ELSE 0

\* lua_call raises L->nCcalls on entry and lowers it when the callee returns;
\* the unwinding of a Lua error puts it back as well.  The function called
\* at line 114 is the one the registry held then.
lua_call_balance ==
    /\ nCcalls' = nCcalls - InCall(pc) + InCall(pc')
    /\ callee' = IF pc' = "generator" THEN regGenerator ELSE LNil

\* The calls made with lua_pcall and the error dropped: the generation ends
\* as exhausted and the read goes on.
lua_error_Swallowed ==
    /\ pc' = "readline"
    /\ UNCHANGED <<exit, old_sigint, globalEnv>>

\* An error raised inside lua_call (lines 57, 87, 114, 131): the calls are
\* unprotected, so the error leaves gen_function, readline() and
\* lua_readline by longjmp and arrives at the host's error handler.  Nothing
\* of lua_readline after line 220 runs.
lua_error ==
    /\ pc' = "idle"
    /\ exit' = "error"
    /\ old_sigint' = "none"
    /\ globalEnv' = "stale"

\* No error: lua_readline stays where it is.
NoError == UNCHANGED <<exit, old_sigint, globalEnv>>

\* The end of lua_stepgenerator and of gen_function: the iterator returned v;
\* y and n are the candidates and steps of the generation so far.  readline's
\* rl_completion_matches calls gen_function again after a candidate and
\* stops at NULL.
Deliver(v, y, n) ==
    LET p == lua_stepgenerator(v)
    IN  /\ steps' = n + 1
        /\ IF p = NULL
           THEN /\ pc' = "readline"
                /\ gen' = "exhausted"
                /\ yielded' = y
           ELSE IF p = Undefined
           THEN /\ pc' = "undefined"
                /\ gen' = "active"
                /\ yielded' = y
           ELSE /\ pc' = "matches"
                /\ gen' = "active"
                /\ yielded' = Append(y, CStr(p.buf))

\* Lines 128-131: lua_stepgenerator calls the iterator it, which
\* lua_initgenerator has just stored or which is in the registry.
CallIterator(it, y, n, calls) ==
    CASE it.type = "cfunction" ->
             /\ regIterator' = it
             /\ Deliver(lua_returnnil, y, n)
             /\ hostCalls' = calls
             /\ NoError
      [] it.type = "cclosure" ->
             LET r == lua_iterstep(it.up2, it.up3, it.up4)
             IN  /\ regIterator' = [it EXCEPT !.up3 = r.up3]
                 /\ hostCalls' = calls
                 /\ IF r.err
                    THEN /\ lua_error
                         /\ steps' = n + 1
                         /\ gen' = "active"
                         /\ yielded' = y
                    ELSE /\ Deliver(r.ret, y, n)
                         /\ NoError
      [] it.type = "function" ->
             /\ regIterator' = it
             /\ pc' = "iterator"
             /\ hostCalls' = calls + 1
             /\ steps' = n
             /\ gen' = "active"
             /\ yielded' = y
             /\ NoError
      [] OTHER ->                     \* calling a value that is no function
             /\ regIterator' = it
             /\ hostCalls' = calls
             /\ lua_error
             /\ steps' = n + 1
             /\ gen' = "active"
             /\ yielded' = y

\* gen_function(t, 0) leaving out lua_initgenerator when the registry holds
\* an iterator already.
gen_function_first_KeepsIterator(t) ==
    /\ rl_completion_entry_function = "gen_function"
    /\ replaced' = IF pc = "matches"
                   THEN [any |-> TRUE, text |-> text, steps |-> steps]
                   ELSE [any |-> FALSE, text |-> <<>>, steps |-> 0]
    /\ again' = FALSE
    /\ text' = t
    /\ hostNil' = FALSE
    /\ IF regIterator # LNil
       THEN CallIterator(regIterator, <<>>, 0, 0)
       ELSE CASE regGenerator.type = "cfunction" ->
                     CallIterator(lua_niliterator, <<>>, 0, 0)
              [] regGenerator.type = "cclosure" ->
                     CallIterator(lua_ipairsiterator(regGenerator.up1,
                                                     lua_pushstring(Heap(t))),
                                  <<>>, 0, 0)
              [] OTHER ->
                     /\ pc' = "generator"
                     /\ hostCalls' = 1
                     /\ steps' = 0
                     /\ gen' = "active"
                     /\ yielded' = <<>>
                     /\ UNCHANGED regIterator
                     /\ NoError
    /\ lua_call_balance
    /\ UNCHANGED <<arg2, sigint, globalL, rl_completion_entry_function, sig,
                   regGenerator, prior, result, native, raised, intAt,
                   nFree, nCleanup, handlerCalls, nameVars, hostVars, trace>>

\* gen_function(t, 0): lua_initgenerator calls the generator with the prefix
\* and stores what it returns; then lua_stepgenerator.  Nothing in it looks
\* at the generation before.
gen_function_first(t) ==
    /\ rl_completion_entry_function = "gen_function"
    /\ replaced' = IF pc = "matches"
                   THEN [any |-> TRUE, text |-> text, steps |-> steps]
                   ELSE [any |-> FALSE, text |-> <<>>, steps |-> 0]
    /\ again' = FALSE
    /\ text' = t
    /\ hostNil' = FALSE
    /\ CASE regGenerator.type = "cfunction" ->
                CallIterator(lua_niliterator, <<>>, 0, 0)
         [] regGenerator.type = "cclosure" ->
                CallIterator(lua_ipairsiterator(regGenerator.up1,
                                                lua_pushstring(Heap(t))),
                             <<>>, 0, 0)
         [] regGenerator.type = "function" ->
                /\ pc' = "generator"
                /\ hostCalls' = 1
                /\ steps' = 0
                /\ gen' = "active"
                /\ yielded' = <<>>
                /\ UNCHANGED regIterator
                /\ NoError
         [] OTHER ->                  \* calling a value that is no function
                /\ lua_error
                /\ hostCalls' = 0
                /\ steps' = 0
                /\ gen' = "active"
                /\ yielded' = <<>>
                /\ UNCHANGED regIterator
    /\ lua_call_balance
    /\ UNCHANGED <<arg2, sigint, globalL, rl_completion_entry_function, sig,
                   regGenerator, prior, result, native, raised, intAt,
                   nFree, nCleanup, handlerCalls, nameVars, hostVars, trace>>

\* The native library starts a generation when it is asked to complete a
\* word, and runs every generation to its NULL.
gen_function_init(t) ==
    /\ pc = "readline"
    /\ gen_function_first(t)

\* gen_function(text, state) with state # 0: lua_stepgenerator alone.
gen_function_step ==
    /\ pc = "matches"
    /\ steps <= MaxTbl + 1
    /\ CallIterator(regIterator, yielded, steps, hostCalls)
    /\ lua_call_balance
    /\ UNCHANGED <<arg2, sigint, globalL, rl_completion_entry_function, sig,
                   regGenerator, prior, result, native, raised, intAt,
                   nFree, nCleanup, handlerCalls, text, hostNil, nameVars,
                   hostVars, trace, drvLog>>

\* The host's generator function returns its iterator to line 114;
\* lua_initgenerator stores it and lua_stepgenerator calls it.
HostGeneratorReturns ==
    /\ pc = "generator"
    /\ CallIterator([type |-> "function", f |-> "host_iterator",
                     script |-> callee.script, pos |-> 0],
                    yielded, steps, hostCalls)
    /\ lua_call_balance
    /\ UNCHANGED <<arg2, sigint, globalL, rl_completion_entry_function, sig,
                   regGenerator, prior, result, native, raised, intAt,
                   nFree, nCleanup, handlerCalls, text, hostNil, nameVars,
                   hostVars, trace, drvLog>>

\* The host's iterator returns its next value, nil after the last, to line
\* 131; lines 132-145 and the return of gen_function follow.
HostIteratorReturns ==
    /\ pc = "iterator"
    /\ LET it == regIterator
           more == it.pos < Len(it.script)
           v == IF more THEN it.script[it.pos + 1] ELSE LNil
       IN  /\ regIterator' = [it EXCEPT !.pos = IF more THEN @ + 1 ELSE @]
           /\ hostNil' = lua_isnil(v)
           /\ Deliver(v, yielded, steps)
    /\ NoError
    /\ lua_call_balance
    /\ UNCHANGED <<arg2, sigint, globalL, rl_completion_entry_function, sig,
                   regGenerator, prior, result, native, raised, intAt,
                   nFree, nCleanup, handlerCalls, text, hostCalls, nameVars,
                   hostVars, trace, drvLog>>

\* The host's generator function or iterator raises an error.
HostRaises ==
    /\ pc \in {"generator", "iterator"}
    /\ raised' = TRUE
    /\ lua_error
    /\ lua_call_balance
    /\ UNCHANGED <<arg2, sigint, globalL, rl_completion_entry_function, sig,
                   regGenerator, regIterator, prior, result, native, intAt,
                   nFree, nCleanup, handlerCalls, genLog, nameVars, hostVars,
                   trace, drvLog>>

(***************************************************************************)
(* SIGINT.                                                                 *)
(***************************************************************************)
\* readline_sigint: SIGINT arrives while the binding's handler is installed.
\* siglongjmp to a buffer whose sigsetjmp caller is still running makes that
\* sigsetjmp return the signal; to any other buffer it is undefined.
readline_sigint ==
    /\ sigint = "readline_sigint"
    /\ pc \notin {"undefined", "interrupted"}
    /\ InCall(pc) = 1 => nCcalls < MaxCalls
    /\ IF globalEnv = "valid"
       THEN /\ pc' = "interrupted"
            /\ sig' = SIGINT
            /\ intAt' = pc
       ELSE /\ pc' = "undefined"
            /\ UNCHANGED <<sig, intAt>>
    /\ UNCHANGED <<arg2, sigint, globalEnv, globalL,
                   rl_completion_entry_function, old_sigint, regGenerator,
                   regIterator, prior, exit, result, native, raised, nFree,
                   nCleanup, handlerCalls, genLog, nameVars, hostVars,
                   luaVars, trace, drvLog>>

\* Lines 213-215: is the old disposition a handler to call?
IsHandler(old) == old # "SIG_DFL" /\ old # "SIG_ERR" /\ old # "SIG_IGN"

\* Line 211: the disposition the interrupted branch installs.
lua_readline_sigrestore(old) == old

\* Lines 208-218 with the handler called before line 211.
lua_readline_interrupted_calls_HandlerFirst(cur, old) ==
    <<[f |-> "rl_free_line_state", disp |-> cur],
      [f |-> "rl_cleanup_after_signal", disp |-> cur]>>
    \o (IF IsHandler(old) THEN <<[f |-> "old_sigint", disp |-> cur]>>
        ELSE <<>>)
    \o <<[f |-> "signal", disp |-> cur]>>
    \o (IF old = "readline_sigint" THEN <<>>
        ELSE <<[f |-> "return", disp |-> lua_readline_sigrestore(old)]>>)

\* Lines 208-218: the calls the branch makes, in order, each with the
\* disposition of SIGINT when it is made; cur is the disposition on entry
\* and old the value of old_sigint.  The call of readline_sigint at line
\* 216 does not return.
lua_readline_interrupted_calls(cur, old) ==
    <<[f |-> "rl_free_line_state", disp |-> cur],
      [f |-> "rl_cleanup_after_signal", disp |-> cur],
      [f |-> "signal", disp |-> cur]>>
    \o (IF IsHandler(old)
        THEN <<[f |-> "old_sigint", disp |-> lua_readline_sigrestore(old)]>>
        ELSE <<>>)
    \o (IF old = "readline_sigint" THEN <<>>
        ELSE <<[f |-> "return", disp |-> lua_readline_sigrestore(old)]>>)

\* Lines 206-218, the branch taken when sigsetjmp returns the signal.  The
\* call at line 216 of a host handler returns; the call of readline_sigint
\* (the old disposition when an earlier read left it installed) jumps to
\* globalEnv, that is to line 205 of this same call.
lua_readline_interrupted ==
    /\ pc = "interrupted"
    /\ nFree < MaxCalls
    /\ nFree' = nFree + 1
    /\ nCleanup' = nCleanup + 1
    /\ sigint' = lua_readline_sigrestore(old_sigint)
    /\ handlerCalls' = IF IsHandler(old_sigint)
                       THEN Append(handlerCalls, sig)
                       ELSE handlerCalls
    /\ trace' = trace \o lua_readline_interrupted_calls(sigint, old_sigint)
    /\ IF old_sigint = "readline_sigint"
       THEN UNCHANGED <<pc, old_sigint, globalEnv, exit, result>>
       ELSE /\ pc' = "idle"
            /\ old_sigint' = "none"
            /\ globalEnv' = "stale"
            /\ exit' = "interrupt"
            /\ result' = <<>>
    /\ UNCHANGED <<arg2, globalL, rl_completion_entry_function, sig,
                   regGenerator, regIterator, prior, native, raised, intAt,
                   genLog, nameVars, hostVars, luaVars, drvLog>>

(***************************************************************************)
(* The interruptible read and the completion bridge.                       *)
(***************************************************************************)
Lines == {NULL} \cup {Heap(Append(l, NUL)) : l \in CStrings}

Next ==
    \/ lua_readline_install
    \/ lua_readline_sigsetjmp
    \/ \E line \in Lines, eof \in BOOLEAN : lua_readline_return(line, eof)
    \/ \E t \in CStrings : gen_function_init(Append(t, NUL))
    \/ gen_function_step
    \/ HostGeneratorReturns
    \/ HostIteratorReturns
    \/ HostRaises
    \/ readline_sigint
    \/ lua_readline_interrupted

Spec == Init /\ [][Next]_vars


(***************************************************************************)
(* The completion bridge alone, over every table and every host function   *)
(* of the bounds: a read that has reached readline() (the state after      *)
(* lua_readline_install and lua_readline_sigsetjmp), in which the library  *)
(* asks for completions any number of times.                               *)
(***************************************************************************)
InitBridge ==
    /\ arg2 \in Arg2s
    /\ prior \in HostDispositions
    /\ pc = "readline"
    /\ sigint = "readline_sigint"
    /\ globalEnv = "valid"
    /\ globalL = "L"
    /\ rl_completion_entry_function = "gen_function"
    /\ old_sigint = prior
    /\ sig = 0
    /\ regGenerator = lua_readline_generator(arg2)
    /\ regIterator = LNil
    /\ exit = "none"
    /\ result = <<>>
    /\ native = [returned |-> FALSE, line |-> NULL, eof |-> FALSE]
    /\ raised = FALSE
    /\ intAt = "none"
    /\ nFree = 0
    /\ nCleanup = 0
    /\ handlerCalls = <<>>
    /\ text = <<>>
    /\ gen = "none"
    /\ yielded = <<>>
    /\ steps = 0
    /\ hostCalls = 0
    /\ hostNil = FALSE
    /\ InitName
    /\ InitHost

NextBridge ==
    \/ \E t \in CStrings : gen_function_init(Append(t, NUL))
    \/ gen_function_step
    \/ HostGeneratorReturns
    \/ HostIteratorReturns
    \/ HostRaises

SpecBridge == InitBridge /\ [][NextBridge]_vars


(***************************************************************************)
(* The completion bridge under any caller.  gen_function is an entry point *)
(* that takes (text, state): nothing in it requires that the generation    *)
(* before has reached its NULL when state is 0, nor that the generation    *)
(* has not, when state is not 0.                                           *)
(***************************************************************************)
\* gen_function(t, 0) while a generation is under way.
gen_function_restart(t) ==
    /\ pc = "matches"
    /\ gen_function_first(t)

\* gen_function(text, state) with state # 0 after the generation has
\* returned NULL.
gen_function_again ==
    /\ pc = "readline"
    /\ gen = "exhausted"
    /\ steps <= MaxTbl + 1
    /\ again' = TRUE
    /\ CallIterator(regIterator, yielded, steps, hostCalls)
    /\ lua_call_balance
    /\ UNCHANGED <<arg2, sigint, globalL, rl_completion_entry_function, sig,
                   regGenerator, prior, result, native, raised, intAt,
                   nFree, nCleanup, handlerCalls, text, hostNil, nameVars,
                   hostVars, trace, replaced>>

NextDriver ==
    \/ NextBridge
    \/ \E t \in CStrings : gen_function_restart(Append(t, NUL))
    \/ gen_function_again

\* The bridge does not look at the disposition of SIGINT: one is enough.
InitDriver == InitBridge /\ prior = "SIG_DFL"

SpecDriver == InitDriver /\ [][NextDriver]_vars


(***************************************************************************)
(* lua_addhistory, and the read with a host that calls it.                 *)
(***************************************************************************)
\* add_history(str) of the native library: a copy of the C string str is
\* appended to the list h.
add_history(h, str) == Append(h, CStr(str))

\* lua_addhistory storing nil as the iterator of the completion bridge.
lua_addhistory_ClearsIterator(v) ==
    /\ pc \in {"idle", "generator", "iterator"}
    /\ Len(history) < MaxHist
    /\ LET str == lua_tolstring(v)
       IN  IF str.null
           THEN /\ pc' = "undefined"
                /\ histCall' = [called |-> TRUE, result |-> <<>>]
                /\ UNCHANGED <<history, regIterator>>
           ELSE /\ history' = add_history(history, str.str)
                /\ histCall' = [called |-> TRUE, result |-> <<>>]
                /\ regIterator' = LNil
                /\ UNCHANGED pc
    /\ UNCHANGED <<arg2, sigint, globalEnv, globalL,
                   rl_completion_entry_function, old_sigint, sig,
                   regGenerator, readLog, genLog, nameVars, outer,
                   luaVars, trace, drvLog>>

\* lua_addhistory(v), called by host code: from the host's top level or
\* from inside its completion function or iterator.  A value that
\* lua_tolstring does not convert reaches add_history as NULL.
lua_addhistory(v) ==
    /\ pc \in {"idle", "generator", "iterator"}
    /\ Len(history) < MaxHist
    /\ LET str == lua_tolstring(v)
       IN  IF str.null
           THEN /\ pc' = "undefined"
                /\ histCall' = [called |-> TRUE, result |-> <<>>]
                /\ UNCHANGED history
           ELSE /\ history' = add_history(history, str.str)
                /\ histCall' = [called |-> TRUE, result |-> <<>>]
                /\ UNCHANGED pc
    /\ UNCHANGED <<arg2, sigint, globalEnv, globalL,
                   rl_completion_entry_function, old_sigint, sig,
                   regGenerator, regIterator, readLog, genLog, nameVars,
                   outer, luaVars, trace, drvLog>>

\* The reads of a host with one completion candidate and its own SIGINT
\* handler.
HistoryArg2s == {LNil, LTable(<<LStr(<<1>>)>>), LFunction(<<LStr(<<1>>)>>)}

InitHistory == Init /\ arg2 \in HistoryArg2s /\ sigint = "host_handler"

NextHistory ==
    \/ Next
    \/ \E v \in Values : lua_addhistory(v)

SpecHistory == InitHistory /\ [][NextHistory]_vars


(***************************************************************************)
(* readline() called by the host's completion function or iterator while   *)
(* the read that called them is in flight.  lua_readline has no test for   *)
(* that (lines 175-205): the second call uses the same registry slot, the  *)
(* same handler and the same jump buffer.  The inner read is followed up   *)
(* to the return of its readline() or to an interrupt; completions inside  *)
(* it are left out.                                                        *)
(***************************************************************************)
\* Lines 177-220 of the inner call, up to its blocking in readline(); the
\* locals of the outer call stay in its frame.
lua_readline_nested(a) ==
    /\ pc \in {"generator", "iterator"}
    /\ ~outer.live
    /\ outer' = [live |-> TRUE, pc |-> pc, old_sigint |-> old_sigint]
    /\ regGenerator' = lua_readline_generator(a)
    /\ rl_completion_entry_function' = "gen_function"
    /\ globalL' = "L"
    /\ old_sigint' = sigint
    /\ sigint' = "readline_sigint"
    /\ globalEnv' = "valid"
    /\ sig' = 0
    /\ pc' = "nested"
    /\ UNCHANGED <<arg2, regIterator, readLog, genLog, nameVars, history,
                   histCall, luaVars, trace, drvLog>>

\* Lines 220-237 of the inner call: its readline() returns, line 222 puts
\* back the disposition it found, and the host callback goes on.  The jump
\* buffer still is the one the inner call set.
lua_readline_nested_return ==
    /\ pc = "nested"
    /\ outer.live
    /\ sigint' = lua_readline_restore(old_sigint)
    /\ old_sigint' = outer.old_sigint
    /\ pc' = outer.pc
    /\ outer' = [live |-> FALSE, pc |-> "idle", old_sigint |-> "none"]
    /\ globalEnv' = "stale"
    /\ UNCHANGED <<arg2, globalL, rl_completion_entry_function, sig,
                   regGenerator, regIterator, readLog, genLog, nameVars,
                   history, histCall, luaVars, trace, drvLog>>

InitNested == Init /\ arg2 \in HistoryArg2s /\ sigint = "host_handler"

NextNested ==
    \/ Next
    \/ \E a \in HistoryArg2s : lua_readline_nested(a)
    \/ lua_readline_nested_return

SpecNested == InitNested /\ [][NextNested]_vars


(***************************************************************************)
(* The name accessors.                                                     *)
(***************************************************************************)
\* lua_getname: the Lua string made of the C string rl_readline_name.
lua_getname_result(p) == <<lua_pushstring(p)>>

lua_getname ==
    /\ pc = "idle"
    /\ nameResult' = lua_getname_result(rl_readline_name)
    /\ UNCHANGED <<readVars, readLog, genLog, rl_readline_name, liveNames,
                   nameArg, nameExit, nameAlloc, released, hostVars, luaVars,
                   trace, drvLog>>

\* clonestr(srcstr) when malloc returns the address addr: the copy strlcpy
\* makes there.
clonestr(srcstr, addr) ==
    [ptr |-> "heap", addr |-> addr,
     buf |-> strlcpy(srcstr, strlen(srcstr) + 1)]

\* Lines 254-255 left out: the old name is never freed.
lua_setname_free_Never(old, live) == live

\* Lines 254-255: the name buffers alive after the old name has been passed
\* to free.
lua_setname_free(old, live) ==
    IF old # NULL /\ old.ptr = "heap" THEN live \ {old.addr} ELSE live

\* lua_setname(n).  addr: the address malloc returns, 0 for NULL.
\* freeTolerated: the allocator leaves a pointer it never returned alone.
\*   line 255  free of the library's own initial name is undefined;
\*   line 100  with malloc's NULL, strlcpy stores through a null pointer,
\*             before line 257 looks at the result.
lua_setname(n, addr, freeTolerated) ==
    /\ pc = "idle"
    /\ addr \notin lua_setname_free(rl_readline_name, liveNames)
    /\ nameArg' = n
    /\ nameResult' = <<>>
    /\ released' = rl_readline_name
    /\ IF rl_readline_name # NULL /\ rl_readline_name.ptr = "static"
          /\ ~freeTolerated
       THEN /\ pc' = "undefined"
            /\ UNCHANGED <<rl_readline_name, liveNames, nameExit, nameAlloc>>
       ELSE IF addr = 0
       THEN /\ pc' = "undefined"
            /\ nameAlloc' = "failed"
            /\ liveNames' = lua_setname_free(rl_readline_name, liveNames)
            /\ UNCHANGED <<rl_readline_name, nameExit>>
       ELSE LET new == clonestr(n, addr)
            IN  /\ rl_readline_name' = new
                /\ nameAlloc' = "ok"
                /\ liveNames' =
                       lua_setname_free(rl_readline_name, liveNames)
                           \cup {addr}
                /\ nameExit' = IF new = NULL THEN "error" ELSE "return"
                /\ pc' = "idle"
    /\ UNCHANGED <<arg2, sigint, globalEnv, globalL,
                   rl_completion_entry_function, old_sigint, sig,
                   regGenerator, regIterator, readLog, genLog, hostVars,
                   luaVars, trace, drvLog>>

NextName ==
    \/ lua_getname
    \/ \E n \in LuaStrings, addr \in 0..MaxHeap, freeTolerated \in BOOLEAN :
           lua_setname(n, addr, freeTolerated)

\* The accessors alone, in a host that has called nothing else.
InitNameOnly == Init /\ arg2 = LNil /\ sigint = "SIG_DFL"

SpecName == InitNameOnly /\ [][NextName]_vars


(***************************************************************************)
(* Properties.                                                             *)
(***************************************************************************)
\* The prefix of the current generation, as text.
Prefix == CStr(text)

\* entry.startswith(p), on the bytes.
StartsWith(e, p) == Len(e) >= Len(p) /\ SubSeq(e, 1, Len(p)) = p

\* The entries of t that start with p, in the order of t.
Filtered(t, p) == SelectSeq(t, LAMBDA e : StartsWith(e.s, p))

AllStrings(vs) == \A i \in 1..Len(vs) : vs[i].type = "string"
Texts(vs)  == [i \in 1..Len(vs) |-> vs[i].s]
CTexts(vs) == [i \in 1..Len(vs) |-> CStr(vs[i].s)]

\* The entries of the table that the cursor (the closure's third upvalue)
\* has passed: all of them once ipairs_aux has returned nil.
Visited ==
    IF regIterator.up3.type = "number"
    THEN SubSeq(arg2.t, 1, regIterator.up3.n)
    ELSE arg2.t

\* C1 as stated: a generation over a table, run to its first exhaustion,
\* yields exactly the entries that start with the prefix, in the table's
\* order, each once.
C1_YieldsTheEntries ==
    (arg2.type = "table" /\ AllStrings(arg2.t) /\ gen = "exhausted")
        => yielded = Texts(Filtered(arg2.t, Prefix))

\* C1 amended: at every point of a generation over a table the candidates
\* yielded so far are, in the table's order and each once, the C strings
\* (the bytes before the first NUL) of the entries up to the cursor that
\* start with the prefix; the cursor is kept from one call to the next, and
\* at exhaustion it has passed the whole table.
C1_YieldsTheEntriesAsCStrings ==
    (arg2.type = "table" /\ AllStrings(arg2.t) /\ gen # "none")
        => /\ regIterator.f = "lua_iterstep"
           /\ yielded = CTexts(Filtered(Visited, Prefix))
           /\ gen = "exhausted" => Visited = arg2.t
           /\ gen = "active" =>
                  /\ regIterator.up3.type = "number"
                  /\ regIterator.up3.n >= 1
                  /\ StartsWith(arg2.t[regIterator.up3.n].s, Prefix)

\* C1 witness: a table of two entries, one of which starts with the
\* one-byte prefix, has been run to exhaustion.
C1_Witness ==
    /\ arg2.type = "table"
    /\ AllStrings(arg2.t)
    /\ gen = "exhausted"
    /\ Len(arg2.t) = 2
    /\ Len(Prefix) = 1
    /\ Len(yielded) = 1
    /\ steps = 2


IsRealHandler(d) == d \notin {"SIG_DFL", "SIG_IGN"}

\* C2 as stated: a SIGINT delivered while readline() is blocked makes the
\* read return nothing, with rl_free_line_state and rl_cleanup_after_signal
\* each called exactly once, the disposition restored to the one before the
\* read, and the prior handler called with the signal number exactly when
\* the prior disposition was a handler.
C2_InterruptedRead ==
    intAt = "readline" =>
        /\ nFree <= 1
        /\ nCleanup <= 1
        /\ pc = "idle" =>
               /\ exit = "interrupt"
               /\ result = <<>>
               /\ nFree = 1
               /\ nCleanup = 1
               /\ sigint = prior
               /\ handlerCalls =
                      IF IsRealHandler(prior) THEN <<SIGINT>> ELSE <<>>

\* C3 as stated: however readline() was left (a line, end of stream, no
\* data, an interrupt, an error raised by the completion callable), the
\* disposition of SIGINT is the one before the call.
C3_EveryExitRestores ==
    (pc = "idle" /\ exit # "none") => sigint = prior

\* C4: a read that the native readline() ended by returning leaves the
\* disposition of SIGINT as it was before the call.
C4_NormalReturnRestores ==
    (pc = "idle" /\ exit \in {"line", "eof", "nodata"}) => sigint = prior

\* C4 witness: a read returned a line and the host's own handler is back.
C4_Witness ==
    /\ pc = "idle"
    /\ exit = "line"
    /\ prior = "host_handler"
    /\ sigint = "host_handler"

\* C5 as stated: a host function whose iterator returns a, b, nil makes the
\* bridge yield a, then b, then exhaustion, and is not called again in that
\* generation after the nil.
C5_YieldsTheValues ==
    (arg2.type = "function" /\ Len(arg2.script) = 2
         /\ AllStrings(arg2.script) /\ hostNil)
        => /\ gen = "exhausted"
           /\ yielded = Texts(arg2.script)
           /\ hostCalls = 4

\* C5 amended: the bridge yields the C strings of a and of b (their bytes
\* before the first NUL), then exhaustion; once the iterator has returned
\* nil the host has been called four times in the generation (the function
\* once, its iterator three times) and is not called again.
C5_YieldsTheValuesAsCStrings ==
    (arg2.type = "function" /\ Len(arg2.script) = 2
         /\ AllStrings(arg2.script) /\ hostNil)
        => /\ gen = "exhausted"
           /\ pc \notin {"matches", "generator", "iterator"}
           /\ yielded = CTexts(arg2.script)
           /\ steps = 3
           /\ hostCalls = 4

\* C5 witness: the generation over a function returning a, b, nil is
\* exhausted.
C5_Witness ==
    /\ arg2.type = "function"
    /\ Len(arg2.script) = 2
    /\ AllStrings(arg2.script)
    /\ hostNil
    /\ gen = "exhausted"
    /\ Len(yielded) = 2

\* C6: with a second argument that is neither a function nor a table, no
\* host code is ever called, and the first gen_function call of every
\* generation returns NULL.
C6_AbsentSourceExhausted ==
    arg2.type \notin {"function", "table"}
        => /\ hostCalls = 0
           /\ pc \notin {"generator", "iterator", "matches"}
           /\ exit # "error"
           /\ gen # "none" =>
                  (gen = "exhausted" /\ steps = 1 /\ yielded = <<>>)

\* C6 witness: a generation for a one-byte prefix over an absent source has
\* ended.
C6_Witness ==
    /\ arg2.type \notin {"function", "table"}
    /\ gen = "exhausted"
    /\ Len(Prefix) = 1
    /\ steps = 1

C8_OutOfMemoryIsAnError ==
    nameAlloc = "failed" => (pc = "idle" /\ nameExit = "error")

C10_CallableErrorSurfaces ==
    raised => (exit = "error" /\ pc \in {"idle", "undefined"})

\* C10 witness: the callable raised and the host has the error.
C10_Witness ==
    /\ raised
    /\ pc = "idle"
    /\ exit = "error"

\* C11: an addhistory() call with a string (the empty string too) appends
\* the C string of its argument to the history, returns no value and raises
\* nothing: the caller goes on where it was; the registry slots of the
\* completion bridge, the log of the generation, the disposition of
\* SIGINT, the jump buffer and old_sigint are as before the call.
C11_AddHistoryFrame ==
    [][history' # history =>
           /\ Len(history') = Len(history) + 1
           /\ histCall'.result = <<>>
           /\ pc' = pc
           /\ exit' = exit
           /\ UNCHANGED <<regGenerator, regIterator, genLog,
                          rl_completion_entry_function, globalL>>
           /\ UNCHANGED <<sigint, globalEnv, old_sigint, sig>>]_vars

\* C11 witness: the host's iterator, called in a generation of a read, has
\* added the empty string to the history.
C11_Witness ==
    /\ history = << <<>> >>
    /\ histCall.called
    /\ pc = "iterator"
    /\ gen = "active"
    /\ regIterator.type = "function"
    /\ sigint = "readline_sigint"
    /\ globalEnv = "valid"

\* The values the host's iterator has returned in the current generation.
Returned ==
    IF pc = "generator" \/ regIterator.type # "function"
    THEN <<>>
    ELSE SubSeq(arg2.script, 1, regIterator.pos)

\* C12: whatever generation a gen_function(text, 0) call replaces - one cut
\* short after k candidates or one run to its end, for any prefix - the
\* generation it starts begins at the first entry of the source with the new
\* prefix: up to its first NULL the candidates yielded are the C strings of
\* the entries of the table passed so far that start with the new prefix,
\* or of the values the function's fresh iterator has returned so far, and
\* at NULL the whole source has been passed.
C12_RestartReplaces ==
    (gen # "none" /\ ~again) =>
        /\ (arg2.type = "table" /\ AllStrings(arg2.t)) =>
               /\ regIterator.f = "lua_iterstep"
               /\ lua_pushstring(Heap(text)) = regIterator.up4
               /\ yielded = CTexts(Filtered(Visited, Prefix))
               /\ gen = "exhausted" => Visited = arg2.t
        /\ (arg2.type = "function" /\ AllStrings(arg2.script)
               /\ exit # "error") =>
               /\ yielded = CTexts(Returned)
               /\ steps = Len(yielded) + (IF gen = "exhausted" THEN 1 ELSE 0)
               /\ gen = "exhausted" => Returned = arg2.script

\* C12 witness: a generation over a table of two entries was cut short
\* after its first candidate; the generation started then, for another
\* prefix, has yielded both entries and ended.
C12_Witness ==
    /\ arg2.type = "table"
    /\ AllStrings(arg2.t)
    /\ replaced.any
    /\ replaced.steps = 1
    /\ CStr(replaced.text) # Prefix
    /\ gen = "exhausted"
    /\ ~again
    /\ Len(yielded) = 2

\* C13: in the branch taken after an interrupt, signal() restoring the
\* disposition comes right after rl_free_line_state and
\* rl_cleanup_after_signal, in that order; the prior handler is called only
\* right after that signal(), with the disposition of before the read in
\* force, and is called whenever that disposition is a handler; readline()
\* returns only after the handler's call (after signal() when there is no
\* handler), as the last thing it does, with no value.
C13_InterruptedOrder ==
    /\ \A i \in 1..Len(trace) :
           /\ trace[i].f = "signal" =>
                  /\ i >= 3
                  /\ trace[i - 2].f = "rl_free_line_state"
                  /\ trace[i - 1].f = "rl_cleanup_after_signal"
                  /\ IsRealHandler(prior) =>
                         (i < Len(trace) /\ trace[i + 1].f = "old_sigint")
           /\ trace[i].f = "old_sigint" =>
                  /\ i >= 2
                  /\ trace[i - 1].f = "signal"
                  /\ trace[i].disp = prior
                  /\ IsRealHandler(prior)
           /\ trace[i].f = "return" =>
                  /\ i = Len(trace)
                  /\ i >= 2
                  /\ trace[i - 1].f =
                         IF IsRealHandler(prior) THEN "old_sigint"
                                                 ELSE "signal"
                  /\ trace[i].disp = prior
                  /\ exit = "interrupt"
                  /\ result = <<>>
    /\ (pc = "idle" /\ exit = "interrupt") =>
           (trace # <<>> /\ trace[Len(trace)].f = "return")

\* C13 witness: an interrupted read of a host with its own handler has
\* returned after the five calls of the branch.
C13_Witness ==
    /\ pc = "idle"
    /\ exit = "interrupt"
    /\ prior = "host_handler"
    /\ Len(trace) = 5
    /\ trace[4] = [f |-> "old_sigint", disp |-> "host_handler"]
    /\ handlerCalls = <<SIGINT>>

\* The lua_readline calls that have started and not ended.
InFlight ==
    (IF pc \notin {"idle", "undefined"} THEN 1 ELSE 0)
        + (IF outer.live THEN 1 ELSE 0)

\* C14 as stated: at most one read is in flight at any time, also when the
\* host's completion callback calls readline(); the generator slot an
\* outstanding read has bound is the one of its own argument.
C14_OneReadInFlight ==
    /\ InFlight <= 1
    /\ pc \notin {"idle", "undefined"} =>
           regGenerator = lua_readline_generator(arg2)

\* The generator slot holds the completion argument of the read, as it is
\* or wrapped by line 190.
HoldsSource ==
    /\ arg2.type \in {"function", "table"}
    /\ \/ regGenerator = arg2
       \/ regGenerator.type = "cclosure" /\ regGenerator.up1 = arg2

\* The iterator slot holds an iterator made from a completion argument.
HoldsContinuation ==
    \/ regIterator.type = "function"
    \/ regIterator.type = "cclosure" /\ regIterator.f = "lua_iterstep"

\* C15 as stated: whenever a read has ended, by a return of the line, at
\* end of stream or by an interrupt, the registry slots of the bridge hold
\* neither its completion source nor an iterator made from it.
C15_SourceDiscarded ==
    (pc = "idle" /\ exit \in {"line", "eof", "nodata", "interrupt"})
        => (~HoldsSource /\ ~HoldsContinuation)

\* C16 as stated: for a host function as completion source every non-nil
\* value its iterator has returned is a candidate with the same text, in
\* the order returned, whether or not it starts with the prefix; no value
\* makes the bridge misbehave.
C16_CallableUnfiltered ==
    (arg2.type = "function" /\ gen # "none" /\ exit # "error")
        => /\ Len(yielded) = Len(Returned)
           /\ \A i \in 1..Len(yielded) :
                  /\ Returned[i].type = "string"
                  /\ yielded[i] = Returned[i].s

\* C17 as stated: whenever readline_sigint is the disposition of SIGINT the
\* jump buffer was set by a lua_readline call that is still in flight, and
\* no SIGINT makes the handler jump to a buffer that is unset or stale.
C17_ResumptionPointValid ==
    /\ sigint = "readline_sigint" => globalEnv = "valid"
    /\ pc # "undefined"

\* C18 as stated: for every kind of source, a gen_function call with
\* state # 0 made after the generation has returned NULL returns NULL again:
\* it raises no error and yields no candidate.
C18_ExhaustionStable ==
    again =>
        /\ exit # "error"
        /\ pc # "undefined"
        /\ pc # "iterator" => gen = "exhausted"

\* C19 as stated: what setname() passes to free is a buffer an earlier
\* setname() call allocated; the name the native library starts with is
\* never passed to free.
C19_ReleasesOnlyOwnedNames ==
    released # NULL => released.ptr = "heap"

\* C20 as stated: a SIGINT delivered at any point of a read after line 205,
\* while readline() is blocked or while the host's completion function or
\* iterator is running, makes the read take the interrupted branch once:
\* one call of each native cleanup function, the disposition of before the
\* read restored, the prior handler called when there is one, no value
\* returned; and the host is left as it was before the read, with no
\* lua_call of the bridge unfinished in the Lua state.
C20_InterruptAnywhere ==
    intAt # "none" =>
        /\ nFree <= 1
        /\ nCleanup <= 1
        /\ pc = "idle" =>
               /\ exit = "interrupt"
               /\ result = <<>>
               /\ trace # <<>>
               /\ trace[Len(trace)].f = "return"
               /\ sigint = prior
               /\ handlerCalls =
                      IF IsRealHandler(prior) THEN <<SIGINT>> ELSE <<>>
               /\ nCcalls = 0

=============================================================================
